---- MODULE Spec2Model ----
(***************************************************************************)
(* Model of the surgery data generator: generate_schedule (schedule.py),   *)
(* generate_patterns and remove_subpatterns (patterns.py),                 *)
(* generate_initial_plan (initial_plan.py), the calls of main              *)
(* (generate_all_data.py) and the id counter of Surgery (models.py).       *)
(*                                                                         *)
(* Conventions of the model                                                *)
(*   - Python floats are modelled as exact rationals <<n, d>> in lowest    *)
(*     terms (d > 0); rounding error is not modelled.                      *)
(*   - A dict is a sequence of <<key, value>> items in insertion order     *)
(*     when the code iterates over it, and a function when it only looks   *)
(*     keys up.                                                            *)
(*   - Operation cards, surgeons, rooms and weekdays are small integers.   *)
(*   - A draw from the random generator is a nondeterministic choice over  *)
(*     the outcomes the distribution can produce.                          *)
(***************************************************************************)
EXTENDS Integers, Sequences, FiniteSets, TLC

\* ------------------------------------------------------------------ bounds
NumCards == 3          \* operation cards A, B, C
NumInputCards == 2     \* cards used by the freely chosen inputs
MaxPatLen == 3         \* longest pattern of a freely built corpus
MaxCorpus == 3         \* patterns in a corpus, over all buckets
NumFilterKeys == 2     \* (weekday, room) buckets of a corpus
NumSurgeons == 2
NumRooms == 2
NumWeekdays == 1
MaxSchedEntries == 2   \* entries of a freely chosen schedule
MaxFreqEntries == 2    \* entries of a freely chosen frequency mapping
MaxMinutes == 2        \* params.max_minutes_per_day
NumPatterns == 2       \* params.num_patterns_per_room_day
DirichletUnit == 3     \* Dirichlet weights are multiples of 1/DirichletUnit
MainMinutes == 1       \* params.max_minutes_per_day in the runs of main
PlanWeeks == 1         \* params.plan_horizon_weeks
MaxWalkLen == 2        \* cards of a walk whose draws do not advance it
RecordedSchedEntries == 1  \* schedule entries when the draws are recorded
MaxConstructions == 6  \* calls of Surgery(...) in one process

Cards == 1..NumCards

\* ------------------------------------------------- exact rational numbers
RECURSIVE GCD(_, _)
GCD(a, b) == IF b = 0 THEN a ELSE GCD(b, a % b)

Abs(x) == IF x < 0 THEN -x ELSE x

\* n/d in lowest terms with a positive denominator (d # 0)
Rat(n, d) ==
    LET s == IF d < 0 THEN -1 ELSE 1
        g == GCD(Abs(n), Abs(d))
    IN  <<(s * n) \div g, (s * d) \div g>>

RZero == <<0, 1>>
ROne == <<1, 1>>
RAdd(x, y) == Rat(x[1] * y[2] + y[1] * x[2], x[2] * y[2])
RMul(x, y) == Rat(x[1] * y[1], x[2] * y[2])
RDiv(x, y) == Rat(x[1] * y[2], x[2] * y[1])
RLt(x, y) == x[1] * y[2] < y[1] * x[2]
RGt(x, y) == RLt(y, x)

\* sum of a sequence of rationals, left to right as Python's sum()
RECURSIVE RSumFrom(_, _, _)
RSumFrom(s, i, acc) ==
    IF i > Len(s) THEN acc ELSE RSumFrom(s, i + 1, RAdd(acc, s[i]))
RSum(s) == RSumFrom(s, 1, RZero)

\* ----------------------------------------------------- sequence helpers
Range(s) == {s[i] : i \in DOMAIN s}

RECURSIVE SeqSum(_, _)
SeqSum(f, S) ==
    IF S = {} THEN 0
    ELSE LET x == CHOOSE y \in S : TRUE IN f[x] + SeqSum(f, S \ {x})

\* all duplicate-free sequences enumerating the finite set S
RECURSIVE Perms(_)
Perms(S) ==
    IF S = {} THEN {<<>>}
    ELSE UNION {{<<x>> \o t : t \in Perms(S \ {x})} : x \in S}

\* ------------------------------------------------------------------------
\* patterns.py : _is_proper_multiset_subset, remove_subpatterns
\* ------------------------------------------------------------------------
\* collections.Counter(p): card -> number of occurrences (0 when absent)
Counter(p) == [c \in Cards |-> Cardinality({i \in DOMAIN p : p[i] = c})]

CounterTotal(a) == SeqSum(a, Cards)

IsProperMultisetSubsetNonStrict(a, b) ==
    IF CounterTotal(a) > CounterTotal(b) THEN FALSE
    ELSE IF \E k \in Cards : a[k] > 0 /\ a[k] > b[k] THEN FALSE
    ELSE TRUE

IsProperMultisetSubsetSetwise(a, b) ==
    IF CounterTotal(a) > CounterTotal(b) THEN FALSE
    ELSE IF \E k \in Cards : a[k] > 0 /\ b[k] = 0 THEN FALSE
    ELSE a # b

IsProperMultisetSubsetLengthOnly(a, b) ==
    IF CounterTotal(a) > CounterTotal(b) THEN FALSE
    ELSE a # b

\* _is_proper_multiset_subset(a, b)
IsProperMultisetSubset(a, b) ==
    IF CounterTotal(a) > CounterTotal(b) THEN FALSE
    ELSE IF \E k \in Cards : a[k] > 0 /\ a[k] > b[k] THEN FALSE
    ELSE a # b

\* all_patterns: the set of unique patterns over all buckets
AllPatterns(pd) == UNION {Range(pd[k]) : k \in DOMAIN pd}

\* sorted(all_patterns, key=len): a stable sort of the set's iteration
\* order `iter` by length
RECURSIVE SortByLenFrom(_, _, _)
SortByLenFrom(iter, L, maxL) ==
    IF L > maxL THEN <<>>
    ELSE SelectSeq(iter, LAMBDA p : Len(p) = L) \o SortByLenFrom(iter, L + 1, maxL)

MaxLenOf(iter) ==
    IF iter = <<>> THEN 0
    ELSE CHOOSE m \in {Len(iter[i]) : i \in DOMAIN iter} :
            \A i \in DOMAIN iter : Len(iter[i]) <= m

UniqueSorted(iter) == SortByLenFrom(iter, 0, MaxLenOf(iter))

\* buckets_by_len[L]
BucketsByLen(us, L) == SelectSeq(us, LAMBDA p : Len(p) = L)

RECURSIVE SuffixCandidatesShorter(_, _, _)
SuffixCandidatesShorter(us, L, maxL) ==
    IF L < 0 THEN <<>>
    ELSE SuffixCandidatesShorter(us, L - 1, maxL) \o BucketsByLen(us, L)

\* suffix_candidates_for_len[L]: running = buckets_by_len[L'] + running for
\* L' from the longest length down to L
RECURSIVE SuffixCandidates(_, _, _)
SuffixCandidates(us, L, maxL) ==
    IF L > maxL THEN <<>>
    ELSE BucketsByLen(us, L) \o SuffixCandidates(us, L + 1, maxL)

\* the inner loop over q: TRUE iff some candidate from position i on,
\* other than p itself, properly contains p (scan stops at the first match)
RECURSIVE ScanCandidates(_, _, _)
ScanCandidates(p, cands, i) ==
    IF i > Len(cands) THEN FALSE
    ELSE IF cands[i] = p THEN ScanCandidates(p, cands, i + 1)
    ELSE IF IsProperMultisetSubset(Counter(p), Counter(cands[i])) THEN TRUE
    ELSE ScanCandidates(p, cands, i + 1)

\* the main loop over unique_sorted, from position i with survivor set ns
RECURSIVE MainCheck(_, _, _)
MainCheck(us, i, ns) ==
    IF i > Len(us) THEN ns
    ELSE LET p == us[i] IN
         IF p \notin ns THEN MainCheck(us, i + 1, ns)
         ELSE IF ScanCandidates(p, SuffixCandidates(us, Len(p), MaxLenOf(us)), 1)
              THEN MainCheck(us, i + 1, ns \ {p})
              ELSE MainCheck(us, i + 1, ns)

\* non_subpatterns after the main loop
NonSubpatterns(pd, iter) == MainCheck(UniqueSorted(iter), 1, AllPatterns(pd))

RECURSIVE Reverse(_)
Reverse(s) == IF s = <<>> THEN <<>> ELSE Reverse(Tail(s)) \o <<Head(s)>>

ReassembleReversed(pd, ns) ==
    [key \in DOMAIN pd |-> Reverse(SelectSeq(pd[key], LAMBDA p : p \in ns))]

ReassembleNonEmpty(pd, ns) ==
    [key \in {k \in DOMAIN pd : \E i \in DOMAIN pd[k] : pd[k][i] \in ns} |->
        SelectSeq(pd[key], LAMBDA p : p \in ns)]

ReassembleOnce(pd, ns) ==
    LET RECURSIVE FirstOccurrences(_, _)
        FirstOccurrences(s, i) ==
            IF i > Len(s) THEN <<>>
            ELSE (IF \E j \in 1..(i - 1) : s[j] = s[i] THEN <<>> ELSE <<s[i]>>)
                 \o FirstOccurrences(s, i + 1)
    IN  [key \in DOMAIN pd |->
            FirstOccurrences(SelectSeq(pd[key], LAMBDA p : p \in ns), 1)]

\* filtered_pattern_data: every input key, its surviving patterns in order
Reassemble(pd, ns) ==
    [key \in DOMAIN pd |-> SelectSeq(pd[key], LAMBDA p : p \in ns)]

RemoveSubpatternsSetOrder(pd, iter) ==
    [key \in DOMAIN pd |->
        SelectSeq(iter, LAMBDA p : p \in Range(pd[key])
                                   /\ p \in NonSubpatterns(pd, iter))]

\* remove_subpatterns(pattern_data); iter is the iteration order of the
\* set all_patterns (hash order, not fixed by the language)
RemoveSubpatterns(pd, iter) == Reassemble(pd, NonSubpatterns(pd, iter))

\* ------------------------------------------------------------------------
\* insertion-ordered dicts: sequences of <<key, value>> items
\* ------------------------------------------------------------------------
DHas(d, k) == \E i \in DOMAIN d : d[i][1] = k

DGet(d, k, default) ==
    IF DHas(d, k) THEN d[CHOOSE i \in DOMAIN d : d[i][1] = k][2] ELSE default

\* d[k] = v : an existing key keeps its position, a new key goes last
DPut(d, k, v) ==
    IF DHas(d, k)
    THEN [i \in DOMAIN d |-> IF d[i][1] = k THEN <<k, v>> ELSE d[i]]
    ELSE Append(d, <<k, v>>)

DVals(d) == [i \in DOMAIN d |-> d[i][2]]

DKeySet(d) == {d[i][1] : i \in DOMAIN d}

\* ------------------------------------------------------------------------
\* patterns.py : generate_patterns
\* ------------------------------------------------------------------------

\* surgeon_card_weights after the first loop: surgeon -> (card -> summed
\* frequency); frequency_data items are <<<<card, surgeon>>, freq>>
RECURSIVE SurgeonCardSums(_, _, _)
SurgeonCardSums(fd, i, acc) ==
    IF i > Len(fd) THEN acc
    ELSE LET card == fd[i][1][1]
             surgeon == fd[i][1][2]
             inner == DGet(acc, surgeon, <<>>)
             summed == RAdd(DGet(inner, card, RZero), Rat(fd[i][2], 1))
         IN  SurgeonCardSums(fd, i + 1, DPut(acc, surgeon, DPut(inner, card, summed)))

\* one surgeon's card_dict divided by its total when the total is positive
NormalizeCardDict(cd) ==
    LET total == RSum(DVals(cd))
    IN  IF RGt(total, RZero)
        THEN [i \in DOMAIN cd |-> <<cd[i][1], RDiv(cd[i][2], total)>>]
        ELSE cd

\* surgeon_card_weights after normalization
SurgeonCardWeights(fd) ==
    LET sums == SurgeonCardSums(fd, 1, <<>>)
    IN  [i \in DOMAIN sums |-> <<sums[i][1], NormalizeCardDict(sums[i][2])>>]

\* room_day_to_surgeons: (day, room) -> [(surgeon, score)]; schedule items
\* are <<<<surgeon, room, day>>, score>>
RECURSIVE RoomDayToSurgeons(_, _, _)
RoomDayToSurgeons(sched, i, acc) ==
    IF i > Len(sched) THEN acc
    ELSE LET key == <<sched[i][1][3], sched[i][1][2]>>
             entry == <<sched[i][1][1], sched[i][2]>>
         IN  RoomDayToSurgeons(sched, i + 1,
                               DPut(acc, key, Append(DGet(acc, key, <<>>), entry)))

\* raw_scores = {s: sc for s, sc in surgeon_list}
RECURSIVE RawScores(_, _, _)
RawScores(sl, i, acc) ==
    IF i > Len(sl) THEN acc ELSE RawScores(sl, i + 1, DPut(acc, sl[i][1], sl[i][2]))

\* normalized_scores of one (day, room)
NormalizedScores(sl) ==
    LET raw == RawScores(sl, 1, <<>>)
        total == RSum(DVals(raw))
    IN  IF total = RZero
        THEN [i \in DOMAIN raw |-> <<raw[i][1], Rat(1, Len(raw))>>]
        ELSE [i \in DOMAIN raw |-> <<raw[i][1], RDiv(raw[i][2], total)>>]

\* the inner loop over one surgeon's cards: combined[card] += norm * weight
RECURSIVE AddSurgeonCards(_, _, _, _)
AddSurgeonCards(cd, norm, j, acc) ==
    IF j > Len(cd) THEN acc
    ELSE AddSurgeonCards(cd, norm, j + 1,
            DPut(acc, cd[j][1],
                 RAdd(DGet(acc, cd[j][1], RZero), RMul(norm, cd[j][2]))))

\* combined_card_weights of one (day, room)
RECURSIVE CombineFrom(_, _, _, _)
CombineFrom(ns, scw, i, acc) ==
    IF i > Len(ns) THEN acc
    ELSE CombineFrom(ns, scw, i + 1,
            AddSurgeonCards(DGet(scw, ns[i][1], <<>>), ns[i][2], 1, acc))

CombinedCardWeights(sl, fd) ==
    CombineFrom(NormalizedScores(sl), SurgeonCardWeights(fd), 1, <<>>)

\* rng.choice(cards, p=weights) raises ValueError unless the probabilities
\* are non-negative and sum to 1
ChoiceRaises(cw) ==
    \/ \E i \in DOMAIN cw : RLt(cw[i][2], RZero)
    \/ RSum(DVals(cw)) # ROne

ChoiceSupportAll(cw) == DKeySet(cw)

\* the cards rng.choice(cards, p=weights) can return
ChoiceSupport(cw) == {cw[i][1] : i \in {j \in DOMAIN cw : RGt(cw[j][2], RZero)}}

\* pattern_data[(day, room)].append(tuple(sequence)) on a defaultdict(list)
AppendPattern(pd, key, seq) ==
    IF key \in DOMAIN pd
    THEN [pd EXCEPT ![key] = Append(@, seq)]
    ELSE pd @@ (key :> <<seq>>)

\* ------------------------------------------------------------------------
\* schedule.py : generate_schedule
\* ------------------------------------------------------------------------

\* surgeon_workloads: surgeon -> summed frequency, in order of first
\* appearance in frequency_data
RECURSIVE SurgeonWorkloads(_, _, _)
SurgeonWorkloads(fd, i, acc) ==
    IF i > Len(fd) THEN acc
    ELSE LET surgeon == fd[i][1][2]
         IN  SurgeonWorkloads(fd, i + 1,
                DPut(acc, surgeon, RAdd(DGet(acc, surgeon, RZero), Rat(fd[i][2], 1))))

\* surgeons = list(surgeon_workloads.keys())
SurgeonList(fd) ==
    LET wl == SurgeonWorkloads(fd, 1, <<>>) IN [i \in DOMAIN wl |-> wl[i][1]]

\* room_day_pairs = [(room, day) for day in weekdays for room in rooms]
RECURSIVE RoomDayPairs(_, _, _)
RoomDayPairs(rs, ds, i) ==
    IF i > Len(ds) THEN <<>>
    ELSE [j \in DOMAIN rs |-> <<rs[j], ds[i]>>] \o RoomDayPairs(rs, ds, i + 1)

\* ScheduleParams.base_concentration and workload_scaling (their defaults)
base_concentration == ROne

workload_scaling == Rat(1, 2)

\* 1.0 + params.workload_scaling * workload
ConcentrationDivisor(workload) == RAdd(ROne, RMul(workload_scaling, workload))

\* concentration = base_concentration / (1.0 + workload_scaling * workload)
\* raises ZeroDivisionError when the divisor is 0, and rng.dirichlet raises
\* ValueError unless alpha > 0
AlphaValid(workload) ==
    /\ ConcentrationDivisor(workload) # RZero
    /\ RGt(RDiv(base_concentration, ConcentrationDivisor(workload)), RZero)

\* rng.dirichlet(alpha) over n slots: non-negative weights that sum to 1,
\* here in multiples of 1/DirichletUnit (a weight can underflow to 0)
DirichletSamples(n) ==
    {[i \in 1..n |-> Rat(w[i], DirichletUnit)] :
        w \in {v \in [1..n -> 0..DirichletUnit] : SeqSum(v, 1..n) = DirichletUnit}}

OneHotUnset(n, idx) == [i \in 1..n |-> RZero]

OneHot(n, idx) == [i \in 1..n |-> IF i = idx THEN ROne ELSE RZero]

ApplySparsityNoFallback(w, th, max_idx) ==
    IF RGt(th, RZero)
    THEN LET cut == [i \in DOMAIN w |-> IF RLt(w[i], th) THEN RZero ELSE w[i]]
             total == RSum(cut)
         IN  IF RGt(total, RZero)
             THEN [i \in DOMAIN w |-> RDiv(cut[i], total)]
             ELSE cut
    ELSE w

ApplySparsityNoRenormalize(w, th, max_idx) ==
    IF RGt(th, RZero)
    THEN LET cut == [i \in DOMAIN w |-> IF RLt(w[i], th) THEN RZero ELSE w[i]]
             total == RSum(cut)
         IN  IF RGt(total, RZero)
             THEN cut
             ELSE OneHot(Len(w), max_idx)
    ELSE w

\* the sparsity block: weights below the threshold become 0, the rest is
\* renormalized; when nothing is left the slot max_idx gets weight 1
ApplySparsity(w, th, max_idx) ==
    IF RGt(th, RZero)
    THEN LET cut == [i \in DOMAIN w |-> IF RLt(w[i], th) THEN RZero ELSE w[i]]
             total == RSum(cut)
         IN  IF RGt(total, RZero)
             THEN [i \in DOMAIN w |-> RDiv(cut[i], total)]
             ELSE OneHot(Len(w), max_idx)
    ELSE w

RECURSIVE StoreWeightsAll(_, _, _, _, _)
StoreWeightsAll(sched, surgeon, pairs, weights, i) ==
    IF i > Len(pairs) THEN sched
    ELSE StoreWeightsAll(
            DPut(sched, <<surgeon, pairs[i][1], pairs[i][2]>>, weights[i]),
            surgeon, pairs, weights, i + 1)

\* the storing loop: schedule[(surgeon, room, day)] = weight if weight > 0
RECURSIVE StoreWeights(_, _, _, _, _)
StoreWeights(sched, surgeon, pairs, weights, i) ==
    IF i > Len(pairs) THEN sched
    ELSE StoreWeights(
            IF RGt(weights[i], RZero)
            THEN DPut(sched, <<surgeon, pairs[i][1], pairs[i][2]>>, weights[i])
            ELSE sched,
            surgeon, pairs, weights, i + 1)

\* ------------------------------------------------------------------------
\* state
\* ------------------------------------------------------------------------
VARIABLES
    frequency_data,             \* dict (card, surgeon) -> frequency
    rooms,                      \* list of rooms
    weekdays,                   \* list of weekdays
    sparsity_threshold,         \* params.sparsity_threshold
    max_minutes_per_day,        \* params.max_minutes_per_day
    num_patterns_per_room_day,  \* params.num_patterns_per_room_day
    run,                        \* the locals and results of the running call
    rerun,                      \* the same for a second run with the same
                                \* seed and inputs
    refiltered,                 \* remove_subpatterns applied to its own output
    streams,                    \* the use of the generators rngs[2] and rngs[3]
    models                      \* models.py: _global_id_counter and the ids of
                                \* the Surgery objects constructed so far

inputVars == <<frequency_data, rooms, weekdays, sparsity_threshold,
               max_minutes_per_day, num_patterns_per_room_day>>

vars == <<inputVars, run, rerun, refiltered, streams, models>>

None == <<>>

\* the fields of run and rerun:
\*   pc              position in the code
\*   schedule        generate_schedule's schedule; generate_patterns' argument
\*   sidx            index in `surgeons` of generate_schedule's loop
\*   sampled         the weights rng.dirichlet returned in the last iteration
\*   room_day        generate_patterns' room_day_to_surgeons
\*   bidx            index of the (day, room) the outer loop is at
\*   combined        combined_card_weights of that (day, room)
\*   pnum            number of the walk within the (day, room), from 1
\*   total_duration  total_duration of the walk
\*   sequence        sequence of the walk
\*   pattern_data    pattern_data before remove_subpatterns
\*   patterns        the mapping returned by remove_subpatterns
\*   week            generate_initial_plan's week
\*   pkidx           index of the (day, room) generate_initial_plan is at
\*   surgeries       generate_initial_plan's surgeries, each a tuple
\*                   <<card, surgeon, room, absolute_day>>
Blank ==
    [pc |-> "idle", schedule |-> <<>>, sidx |-> 0, sampled |-> <<>>,
     room_day |-> <<>>, bidx |-> 0,
     combined |-> <<>>, pnum |-> 0, total_duration |-> 0, sequence |-> <<>>,
     pattern_data |-> <<>>, patterns |-> <<>>,
     week |-> 0, pkidx |-> 0, surgeries |-> <<>>]

Surgeons == 1..NumSurgeons
Rooms == 1..NumRooms
Weekdays == 1..NumWeekdays

\* ------------------------------------------------------------------------
\* remove_subpatterns as a function of an arbitrary pattern corpus
\* ------------------------------------------------------------------------
FilterKeys == {<<1, r>> : r \in 1..NumFilterKeys}

PatternsUpTo(n) == UNION {[1..m -> 1..NumInputCards] : m \in 0..n}

\* the corpus [(A,B), (A,B,C), (A,A,B)] in one bucket
ExampleCorpus ==
    [k \in FilterKeys |->
        IF k = <<1, 1>> THEN << <<1, 2>>, <<1, 2, 3>>, <<1, 1, 2>> >> ELSE <<>>]

CorpusSize(pd) == SeqSum([k \in DOMAIN pd |-> Len(pd[k])], DOMAIN pd)

NoInputs ==
    /\ frequency_data = None /\ rooms = None /\ weekdays = None
    /\ sparsity_threshold = RZero
    /\ max_minutes_per_day = 0 /\ num_patterns_per_room_day = 0

InitFilter ==
    /\ \E pd \in {[k \in FilterKeys |-> <<>>], ExampleCorpus} :
          run = [Blank EXCEPT !.pc = "corpus", !.pattern_data = pd]
    /\ rerun = None
    /\ refiltered = None
    /\ streams = None
    /\ models = None
    /\ NoInputs

\* the caller puts one more pattern into a bucket of the corpus
AddPattern ==
    /\ run.pc = "corpus"
    /\ CorpusSize(run.pattern_data) < MaxCorpus
    /\ \E k \in FilterKeys, p \in PatternsUpTo(MaxPatLen) :
          run' = [run EXCEPT !.pattern_data[k] = Append(@, p)]
    /\ UNCHANGED <<inputVars, rerun, refiltered, streams, models>>

\* patterns = remove_subpatterns(pattern_data)
Filter ==
    /\ run.pc = "corpus"
    /\ \E iter \in Perms(AllPatterns(run.pattern_data)) :
          run' = [run EXCEPT !.pc = "filtered",
                             !.patterns = RemoveSubpatterns(run.pattern_data, iter)]
    /\ UNCHANGED <<inputVars, rerun, refiltered, streams, models>>

\* refiltered = remove_subpatterns(patterns)
Refilter ==
    /\ run.pc = "filtered"
    /\ \E iter \in Perms(AllPatterns(run.patterns)) :
          refiltered' = RemoveSubpatterns(run.patterns, iter)
    /\ run' = [run EXCEPT !.pc = "refiltered"]
    /\ UNCHANGED <<inputVars, rerun, streams, models>>

NextFilter == AddPattern \/ Filter \/ Refilter

SpecFilter == InitFilter /\ [][NextFilter]_vars

\* ------------------------------------------------------------------------
\* the steps of generate_patterns on the locals r of one run
\* ------------------------------------------------------------------------

\* rng.lognormal(mean_log, std_log): any positive duration, here in whole
\* minutes, up to one more than the day holds
Durations == 1..(max_minutes_per_day + 1)

\* entry of generate_patterns(schedule, ...): pattern_data is empty,
\* room_day_to_surgeons is built, the loop over its items is at its start
EnterGeneratePatterns(sched) ==
    [Blank EXCEPT !.pc = "gp_bucket", !.schedule = sched,
                  !.room_day = RoomDayToSurgeons(sched, 1, <<>>), !.bidx = 1]

\* top of the loop over room_day_to_surgeons.items(): an empty surgeon list
\* or an empty combined_card_weights skips the (day, room); otherwise the
\* first walk starts (range(num_patterns_per_room_day) may be empty)
NextBucketEnabled(r) == r.pc = "gp_bucket" /\ r.bidx <= Len(r.room_day)

NextBucketStep(r) ==
    LET sl == r.room_day[r.bidx][2]
        cw == CombinedCardWeights(sl, frequency_data)
    IN  IF sl = <<>> \/ cw = <<>> \/ num_patterns_per_room_day < 1
        THEN [r EXCEPT !.bidx = @ + 1]
        ELSE [r EXCEPT !.pc = "gp_walk", !.combined = cw, !.pnum = 1,
                       !.total_duration = 0, !.sequence = <<>>]

CloseWalkKeepEmpty(r, seq) ==
    LET pd == AppendPattern(r.pattern_data, r.room_day[r.bidx][1], seq)
    IN  IF r.pnum < num_patterns_per_room_day
        THEN [r EXCEPT !.pattern_data = pd, !.total_duration = 0,
                       !.sequence = <<>>, !.pnum = @ + 1]
        ELSE [r EXCEPT !.pattern_data = pd, !.total_duration = 0,
                       !.sequence = <<>>, !.pnum = 0, !.pc = "gp_bucket",
                       !.bidx = @ + 1, !.combined = <<>>]

CloseWalkOneMore(r, seq) ==
    LET pd == IF seq # <<>>
              THEN AppendPattern(r.pattern_data, r.room_day[r.bidx][1], seq)
              ELSE r.pattern_data
    IN  IF r.pnum <= num_patterns_per_room_day
        THEN [r EXCEPT !.pattern_data = pd, !.total_duration = 0,
                       !.sequence = <<>>, !.pnum = @ + 1]
        ELSE [r EXCEPT !.pattern_data = pd, !.total_duration = 0,
                       !.sequence = <<>>, !.pnum = 0, !.pc = "gp_bucket",
                       !.bidx = @ + 1, !.combined = <<>>]

\* after the while loop: `if sequence: pattern_data[...].append(...)`, then
\* the next walk of this (day, room) or the next (day, room)
CloseWalk(r, seq) ==
    LET pd == IF seq # <<>>
              THEN AppendPattern(r.pattern_data, r.room_day[r.bidx][1], seq)
              ELSE r.pattern_data
    IN  IF r.pnum < num_patterns_per_room_day
        THEN [r EXCEPT !.pattern_data = pd, !.total_duration = 0,
                       !.sequence = <<>>, !.pnum = @ + 1]
        ELSE [r EXCEPT !.pattern_data = pd, !.total_duration = 0,
                       !.sequence = <<>>, !.pnum = 0, !.pc = "gp_bucket",
                       !.bidx = @ + 1, !.combined = <<>>]

OverflowsBeforeAdding(total, duration) == total > max_minutes_per_day

\* the test `total_duration + duration > params.max_minutes_per_day`
Overflows(total, duration) == total + duration > max_minutes_per_day

InWhile(r) == r.pc = "gp_walk" /\ r.total_duration < max_minutes_per_day

\* one iteration of the while loop with the draws (card, duration): break
\* on overflow, else append the card and add the duration
DrawEnabled(r, card) ==
    /\ InWhile(r)
    /\ ~ChoiceRaises(r.combined)
    /\ card \in ChoiceSupport(r.combined)

DrawStepRetry(r, card, duration) ==
    IF Overflows(r.total_duration, duration)
    THEN r
    ELSE [r EXCEPT !.sequence = Append(@, card),
                   !.total_duration = @ + duration]

DrawStep(r, card, duration) ==
    IF Overflows(r.total_duration, duration)
    THEN CloseWalk(r, r.sequence)
    ELSE [r EXCEPT !.sequence = Append(@, card),
                   !.total_duration = @ + duration]

\* rng.choice raises ValueError: generate_patterns ends with the exception
DrawRaisesEnabled(r) == InWhile(r) /\ ChoiceRaises(r.combined)

DrawRaisesStep(r) == [r EXCEPT !.pc = "gp_raised"]

\* the while condition `total_duration < max_minutes_per_day` is false
WhileExitEnabled(r) ==
    r.pc = "gp_walk" /\ ~(r.total_duration < max_minutes_per_day)

WhileExitStep(r) == CloseWalk(r, r.sequence)

\* after the loop over the (day, room)s: remove_subpatterns and return
ReturnPatternsEnabled(r) == r.pc = "gp_bucket" /\ r.bidx > Len(r.room_day)

ReturnPatternsStep(r, iter) ==
    [r EXCEPT !.pc = "gp_done",
              !.patterns = RemoveSubpatterns(r.pattern_data, iter)]

\* ------------------------------------------------------------------------
\* generate_patterns as a function of an arbitrary schedule and frequency
\* mapping
\* ------------------------------------------------------------------------

\* lexicographic order on tuples of integers of equal length
RECURSIVE LexLess(_, _, _)
LexLess(a, b, i) ==
    IF i > Len(a) THEN FALSE
    ELSE IF a[i] < b[i] THEN TRUE
    ELSE IF a[i] > b[i] THEN FALSE
    ELSE LexLess(a, b, i + 1)

\* the dict with the items of function f, inserted in ascending key order
RECURSIVE DictOf(_, _)
DictOf(f, K) ==
    IF K = {} THEN <<>>
    ELSE LET k == CHOOSE x \in K : \A y \in K \ {x} : LexLess(x, y, 1)
         IN  <<<<k, f[k]>>>> \o DictOf(f, K \ {k})

SmallSubsets(S, n) == {K \in SUBSET S : Cardinality(K) <= n}

\* schedules of at most MaxSchedEntries entries with weight 0 or 1
ScheduleInputs ==
    UNION {{DictOf(f, K) : f \in [K -> {RZero, ROne}]} :
           K \in SmallSubsets({<<s, r, d>> : s \in Surgeons, r \in Rooms, d \in Weekdays},
                              MaxSchedEntries)}

\* frequency mappings of at most MaxFreqEntries entries with frequency 0 or 1
FrequencyInputs ==
    UNION {{DictOf(f, K) : f \in [K -> {0, 1}]} :
           K \in SmallSubsets({<<c, s>> : c \in 1..NumInputCards, s \in Surgeons},
                              MaxFreqEntries)}

\* PatternParams: max_minutes_per_day is an int > 0 and
\* num_patterns_per_room_day an int >= 1
PatternParamsValid == max_minutes_per_day > 0 /\ num_patterns_per_room_day >= 1

InitPatterns ==
    /\ frequency_data \in FrequencyInputs
    /\ max_minutes_per_day = MaxMinutes
    /\ num_patterns_per_room_day = NumPatterns
    /\ PatternParamsValid
    /\ rooms = None /\ weekdays = None /\ sparsity_threshold = RZero
    /\ \E sched \in ScheduleInputs : run = EnterGeneratePatterns(sched)
    /\ rerun = None
    /\ refiltered = None
    /\ streams = None
    /\ models = None

NextBucket ==
    /\ NextBucketEnabled(run)
    /\ run' = NextBucketStep(run)
    /\ UNCHANGED <<inputVars, rerun, refiltered, streams, models>>

Draw ==
    /\ \E card \in Cards, duration \in Durations :
          /\ DrawEnabled(run, card)
          /\ run' = DrawStep(run, card, duration)
    /\ UNCHANGED <<inputVars, rerun, refiltered, streams, models>>

DrawRaises ==
    /\ DrawRaisesEnabled(run)
    /\ run' = DrawRaisesStep(run)
    /\ UNCHANGED <<inputVars, rerun, refiltered, streams, models>>

WhileExit ==
    /\ WhileExitEnabled(run)
    /\ run' = WhileExitStep(run)
    /\ UNCHANGED <<inputVars, rerun, refiltered, streams, models>>

ReturnPatterns ==
    /\ ReturnPatternsEnabled(run)
    /\ \E iter \in Perms(AllPatterns(run.pattern_data)) :
          run' = ReturnPatternsStep(run, iter)
    /\ UNCHANGED <<inputVars, rerun, refiltered, streams, models>>

NextPatterns == NextBucket \/ Draw \/ DrawRaises \/ WhileExit \/ ReturnPatterns

SpecPatterns == InitPatterns /\ [][NextPatterns]_vars

\* ------------------------------------------------------------------------
\* generate_patterns with durations of any size.  rng.lognormal returns a
\* positive float of any magnitude; exp underflows to 0.0 for a very
\* negative mean_log, and a duration below the rounding of
\* total_duration + duration leaves the sum unchanged.  Such a draw is
\* modelled as a duration of 0; the walk is followed for MaxWalkLen cards.
\* ------------------------------------------------------------------------
DrawNegligible ==
    /\ \E card \in Cards :
          /\ DrawEnabled(run, card)
          /\ Len(run.sequence) < MaxWalkLen
          /\ run' = DrawStep(run, card, 0)
    /\ UNCHANGED <<inputVars, rerun, refiltered, streams, models>>

InitWalk ==
    /\ frequency_data \in FrequencyInputs
    /\ max_minutes_per_day = MaxMinutes
    /\ num_patterns_per_room_day = 1
    /\ PatternParamsValid
    /\ rooms = None /\ weekdays = None /\ sparsity_threshold = RZero
    /\ \E sched \in ScheduleInputs : run = EnterGeneratePatterns(sched)
    /\ rerun = None
    /\ refiltered = None
    /\ streams = None
    /\ models = None

NextWalk ==
    NextBucket \/ Draw \/ DrawNegligible \/ DrawRaises \/ WhileExit \/ ReturnPatterns

SpecWalk == InitWalk /\ [][NextWalk]_vars

\* ------------------------------------------------------------------------
\* generate_patterns with a record of what the generator returned.  In this
\* specification streams.walk holds the draws <<card, duration>> of the
\* walk in progress and streams.closed, for every walk that has ended, its
\* (day, room) and all its draws, the rejected one included.
\* ------------------------------------------------------------------------
NoDraws == [walk |-> <<>>, closed |-> <<>>]

\* the walk of r has ended in the step to r2
WalkEnded(r, r2) == r2.pc # "gp_walk" \/ r2.pnum # r.pnum

\* the record after the step from r to r2 in which `draws` further values
\* were taken from the generator
Recorded(st, r, r2, draws) ==
    IF WalkEnded(r, r2)
    THEN [walk |-> <<>>,
          closed |-> Append(st.closed, <<r.room_day[r.bidx][1], st.walk \o draws>>)]
    ELSE [st EXCEPT !.walk = @ \o draws]

InitRecorded ==
    /\ frequency_data \in FrequencyInputs
    /\ max_minutes_per_day = MaxMinutes
    /\ num_patterns_per_room_day = NumPatterns
    /\ PatternParamsValid
    /\ rooms = None /\ weekdays = None /\ sparsity_threshold = RZero
    /\ \E sched \in {s \in ScheduleInputs : Len(s) <= RecordedSchedEntries} :
          run = EnterGeneratePatterns(sched)
    /\ rerun = None
    /\ refiltered = None
    /\ streams = NoDraws
    /\ models = None

RecordedDraw ==
    /\ \E card \in Cards, duration \in Durations :
          /\ DrawEnabled(run, card)
          /\ run' = DrawStep(run, card, duration)
          /\ streams' = Recorded(streams, run, run', <<<<card, duration>>>>)
    /\ UNCHANGED <<inputVars, rerun, refiltered, models>>

RecordedWhileExit ==
    /\ WhileExitEnabled(run)
    /\ run' = WhileExitStep(run)
    /\ streams' = Recorded(streams, run, run', <<>>)
    /\ UNCHANGED <<inputVars, rerun, refiltered, models>>

NextRecorded ==
    NextBucket \/ RecordedDraw \/ DrawRaises \/ RecordedWhileExit \/ ReturnPatterns

SpecRecorded == InitRecorded /\ [][NextRecorded]_vars

\* ------------------------------------------------------------------------
\* the steps of generate_schedule on the locals r of one run
\* ------------------------------------------------------------------------

\* entry of generate_schedule(frequency_data, rooms, weekdays, params, rng)
EnterGenerateSchedule == [Blank EXCEPT !.pc = "gs_slots"]

NumSlotsRoomsOnly == Len(rooms)

\* num_slots = len(room_day_pairs)
NumSlots == Len(RoomDayPairs(rooms, weekdays, 1))

NoSlotsOrNoSurgeons(r) ==
    r.pc = "gs_slots" /\ (NumSlots = 0 \/ SurgeonList(frequency_data) = <<>>)

\* `if num_slots == 0: raise ValueError(...)`
NoSlotsEnabled(r) == r.pc = "gs_slots" /\ NumSlots = 0

NoSlotsStep(r) == [r EXCEPT !.pc = "gs_raised"]

\* schedule = {} and the loop over the surgeons starts
EnterLoopEnabled(r) == r.pc = "gs_slots" /\ NumSlots # 0

EnterLoopStep(r) == [r EXCEPT !.pc = "gs_loop", !.sidx = 1]

\* one iteration of `for surgeon in surgeons` with the draws w of
\* rng.dirichlet and max_idx of np.argmax(rng.random(num_slots))
InLoop(r) == r.pc = "gs_loop" /\ r.sidx <= Len(SurgeonList(frequency_data))

\* workload = surgeon_workloads[surgeon]
Workload(r) == SurgeonWorkloads(frequency_data, 1, <<>>)[r.sidx][2]

ScheduleSurgeonEnabled(r) == InLoop(r) /\ AlphaValid(Workload(r))

\* the division or rng.dirichlet raises: generate_schedule ends with the
\* exception
DirichletRaisesEnabled(r) == InLoop(r) /\ ~AlphaValid(Workload(r))

DirichletRaisesStep(r) == [r EXCEPT !.pc = "gs_raised"]

ScheduleSurgeonStep(r, w, max_idx) ==
    LET surgeon == SurgeonList(frequency_data)[r.sidx]
        weights == ApplySparsity(w, sparsity_threshold, max_idx)
    IN  [r EXCEPT !.schedule = StoreWeights(@, surgeon,
                                    RoomDayPairs(rooms, weekdays, 1), weights, 1),
                  !.sidx = @ + 1,
                  !.sampled = w]

\* `return schedule`
ReturnScheduleEnabled(r) ==
    r.pc = "gs_loop" /\ r.sidx > Len(SurgeonList(frequency_data))

ReturnScheduleStep(r) == [r EXCEPT !.pc = "gs_done", !.sampled = <<>>]

\* ------------------------------------------------------------------------
\* generate_schedule as a function of an arbitrary frequency mapping
\* ------------------------------------------------------------------------
Prefixes(n) == {[i \in 1..m |-> i] : m \in 0..n}

ThresholdInputs == {Rat(k, DirichletUnit) : k \in 0..DirichletUnit}

\* frequency mappings of at most MaxFreqEntries entries with frequency
\* -1, 0 or 1
SignedFrequencyInputs ==
    UNION {{DictOf(f, K) : f \in [K -> {-1, 0, 1}]} :
           K \in SmallSubsets({<<c, s>> : c \in 1..NumInputCards, s \in Surgeons},
                              MaxFreqEntries)}

InitSchedule ==
    /\ frequency_data \in SignedFrequencyInputs
    /\ rooms \in Prefixes(NumRooms)
    /\ weekdays \in Prefixes(NumWeekdays)
    /\ sparsity_threshold \in ThresholdInputs
    /\ max_minutes_per_day = 0 /\ num_patterns_per_room_day = 0
    /\ run = EnterGenerateSchedule
    /\ rerun = None
    /\ refiltered = None
    /\ streams = None
    /\ models = None

NoSlots ==
    /\ NoSlotsEnabled(run)
    /\ run' = NoSlotsStep(run)
    /\ UNCHANGED <<inputVars, rerun, refiltered, streams, models>>

EnterLoop ==
    /\ EnterLoopEnabled(run)
    /\ run' = EnterLoopStep(run)
    /\ UNCHANGED <<inputVars, rerun, refiltered, streams, models>>

ScheduleSurgeon ==
    /\ ScheduleSurgeonEnabled(run)
    /\ \E w \in DirichletSamples(NumSlots), max_idx \in 1..NumSlots :
          run' = ScheduleSurgeonStep(run, w, max_idx)
    /\ UNCHANGED <<inputVars, rerun, refiltered, streams, models>>

DirichletRaises ==
    /\ DirichletRaisesEnabled(run)
    /\ run' = DirichletRaisesStep(run)
    /\ UNCHANGED <<inputVars, rerun, refiltered, streams, models>>

ReturnSchedule ==
    /\ ReturnScheduleEnabled(run)
    /\ run' = ReturnScheduleStep(run)
    /\ UNCHANGED <<inputVars, rerun, refiltered, streams, models>>

NextSchedule ==
    NoSlots \/ EnterLoop \/ ScheduleSurgeon \/ DirichletRaises \/ ReturnSchedule

SpecSchedule == InitSchedule /\ [][NextSchedule]_vars

\* ------------------------------------------------------------------------
\* generate_all_data.py : two runs of main's schedule and pattern calls with
\* the same seed and the same inputs.  The two runs read the same random
\* streams, so they take every step with the same draws; the iteration
\* order of a set is not part of the streams and is chosen in each run.
\* ------------------------------------------------------------------------
UnseededStream(draw, all) == all

\* rngs = [default_rng(s) for s in SeedSequence(seed).spawn(8)]: what the
\* second run draws where the first run drew `draw`
SeededStream(draw, all) == {draw}

\* rooms=[i for i in range(n_rooms)], weekdays = [0, 1, 2, 3, 4]
InitMain ==
    /\ frequency_data \in FrequencyInputs
    /\ rooms \in Prefixes(NumRooms)
    /\ weekdays = [i \in 1..NumWeekdays |-> i]
    /\ sparsity_threshold \in ThresholdInputs
    /\ max_minutes_per_day = MainMinutes
    /\ num_patterns_per_room_day = NumPatterns
    /\ PatternParamsValid
    /\ run = EnterGenerateSchedule
    /\ rerun = EnterGenerateSchedule
    /\ refiltered = None
    /\ streams = None
    /\ models = None

MainNoSlots ==
    /\ NoSlotsEnabled(run)
    /\ run' = NoSlotsStep(run)
    /\ rerun' = IF NoSlotsEnabled(rerun) THEN NoSlotsStep(rerun) ELSE rerun
    /\ UNCHANGED <<inputVars, refiltered, streams, models>>

MainEnterLoop ==
    /\ EnterLoopEnabled(run)
    /\ run' = EnterLoopStep(run)
    /\ rerun' = IF EnterLoopEnabled(rerun) THEN EnterLoopStep(rerun) ELSE rerun
    /\ UNCHANGED <<inputVars, refiltered, streams, models>>

MainScheduleSurgeon ==
    /\ ScheduleSurgeonEnabled(run)
    /\ \E w \in DirichletSamples(NumSlots), max_idx \in 1..NumSlots :
          /\ run' = ScheduleSurgeonStep(run, w, max_idx)
          /\ \E d \in SeededStream(<<w, max_idx>>,
                                   DirichletSamples(NumSlots) \X (1..NumSlots)) :
                rerun' = IF ScheduleSurgeonEnabled(rerun)
                         THEN ScheduleSurgeonStep(rerun, d[1], d[2])
                         ELSE rerun
    /\ UNCHANGED <<inputVars, refiltered, streams, models>>

MainReturnSchedule ==
    /\ ReturnScheduleEnabled(run)
    /\ run' = ReturnScheduleStep(run)
    /\ rerun' = IF ReturnScheduleEnabled(rerun) THEN ReturnScheduleStep(rerun)
               ELSE rerun
    /\ UNCHANGED <<inputVars, refiltered, streams, models>>

\* patterns = generators.generate_patterns(frequency_data, schedule, ...)
MainCallPatterns ==
    /\ run.pc = "gs_done"
    /\ run' = EnterGeneratePatterns(run.schedule)
    /\ rerun' = IF rerun.pc = "gs_done" THEN EnterGeneratePatterns(rerun.schedule)
               ELSE rerun
    /\ UNCHANGED <<inputVars, refiltered, streams, models>>

MainNextBucket ==
    /\ NextBucketEnabled(run)
    /\ run' = NextBucketStep(run)
    /\ rerun' = IF NextBucketEnabled(rerun) THEN NextBucketStep(rerun) ELSE rerun
    /\ UNCHANGED <<inputVars, refiltered, streams, models>>

MainDraw ==
    /\ \E card \in Cards, duration \in Durations :
          /\ DrawEnabled(run, card)
          /\ run' = DrawStep(run, card, duration)
          /\ \E d \in SeededStream(<<card, duration>>, Cards \X Durations) :
                rerun' = IF DrawEnabled(rerun, d[1])
                         THEN DrawStep(rerun, d[1], d[2])
                         ELSE rerun
    /\ UNCHANGED <<inputVars, refiltered, streams, models>>

MainDrawRaises ==
    /\ DrawRaisesEnabled(run)
    /\ run' = DrawRaisesStep(run)
    /\ rerun' = IF DrawRaisesEnabled(rerun) THEN DrawRaisesStep(rerun) ELSE rerun
    /\ UNCHANGED <<inputVars, refiltered, streams, models>>

MainWhileExit ==
    /\ WhileExitEnabled(run)
    /\ run' = WhileExitStep(run)
    /\ rerun' = IF WhileExitEnabled(rerun) THEN WhileExitStep(rerun) ELSE rerun
    /\ UNCHANGED <<inputVars, refiltered, streams, models>>

MainReturnPatterns ==
    /\ ReturnPatternsEnabled(run)
    /\ \E iter \in Perms(AllPatterns(run.pattern_data)) :
          run' = ReturnPatternsStep(run, iter)
    /\ \E iter \in Perms(AllPatterns(rerun.pattern_data)) :
          rerun' = IF ReturnPatternsEnabled(rerun)
                   THEN ReturnPatternsStep(rerun, iter)
                   ELSE rerun
    /\ UNCHANGED <<inputVars, refiltered, streams, models>>

NextMain ==
    \/ MainNoSlots \/ MainEnterLoop \/ MainScheduleSurgeon \/ MainReturnSchedule
    \/ MainCallPatterns
    \/ MainNextBucket \/ MainDraw \/ MainDrawRaises \/ MainWhileExit
    \/ MainReturnPatterns

SpecMain == InitMain /\ [][NextMain]_vars

\* ------------------------------------------------------------------------
\* initial_plan.py : the steps of generate_initial_plan on the locals r
\* ------------------------------------------------------------------------

\* InitialPlanParams.plan_horizon_weeks
plan_horizon_weeks == PlanWeeks

\* len(weekdays) with weekdays = range(7)
DaysPerWeek == 7

\* total = sum(w for _, w in card_to_surgeons[card])
CardTotal(fd, card) ==
    RSum([i \in DOMAIN SelectSeq(fd, LAMBDA e : e[1][1] = card) |->
            Rat(SelectSeq(fd, LAMBDA e : e[1][1] = card)[i][2], 1)])

\* `w / total` divides by zero for a card whose frequencies sum to 0
NormalizeRaises(fd) == \E i \in DOMAIN fd : CardTotal(fd, fd[i][1][1]) = RZero

\* room_day_to_surgeons[(day, room)]: the surgeons with score > 0 there
ActiveSurgeons(sched, key) ==
    {sched[i][1][1] : i \in {j \in DOMAIN sched :
        /\ sched[j][1][3] = key[1] /\ sched[j][1][2] = key[2]
        /\ RGt(sched[j][2], RZero)}}

\* eligible: the (surgeon, normalized frequency) of the card whose surgeon
\* is active, in the order of frequency_data
Eligible(fd, card, active) ==
    LET es == SelectSeq(fd, LAMBDA e : e[1][1] = card /\ e[1][2] \in active)
    IN  [i \in DOMAIN es |->
            <<es[i][1][2], RDiv(Rat(es[i][2], 1), CardTotal(fd, card))>>]

\* pattern_data.items(): the keys in the order generate_patterns first
\* appended to them
PlanKeys(r) ==
    LET ks == [i \in DOMAIN r.room_day |-> r.room_day[i][1]]
    IN  SelectSeq(ks, LAMBDA k : k \in DOMAIN r.patterns)

\* rng.choice(surgeons, p=weights / sum(weights)) at position k of the
\* pattern is reached and fails: the eligible weights sum to 0
PickRaises(pattern, k, active) ==
    LET el == Eligible(frequency_data, pattern[k], active)
    IN  el # <<>> /\ RSum(DVals(el)) = RZero

\* the surgeons rng.choice can return at position k
PickSupport(pattern, k, active) ==
    ChoiceSupport(Eligible(frequency_data, pattern[k], active))

\* models.py, class Surgery: the fields without a default
RequiredSurgeryFields ==
    {"operation_card_id", "surgeon_id", "expected_duration",
     "days_since_registration", "operate_by", "allowed_changes",
     "allowed_days_moved_plus", "allowed_days_moved_minus",
     "icu", "ward", "los_icu", "los_ward"}

\* the keyword arguments of Surgery(...) in generate_initial_plan
InitialPlanFields ==
    {"operation_card_id", "surgeon_id", "expected_duration",
     "days_since_registration", "planning_window", "operation_window",
     "allowed_changes", "allowed_days_moved_plus", "allowed_days_moved_minus",
     "icu", "ward", "los_icu", "los_ward", "planned_room", "planned_day"}

\* the keyword arguments of Surgery(...) in generate_waiting_list
WaitingListFields ==
    {"operation_card_id", "surgeon_id", "expected_duration",
     "days_since_registration", "operate_by", "allowed_changes",
     "allowed_days_moved_plus", "allowed_days_moved_minus",
     "icu", "ward", "los_icu", "los_ward"}

\* Surgery(**fields) raises ValidationError: a required field is missing
ValidationRaises(fields) == ~(RequiredSurgeryFields \subseteq fields)

\* the module state of models.py when it is imported
FreshModels == [global_id_counter |-> 0, created |-> <<>>]

\* Surgery(**fields) without id: the default factory of id calls
\* global_id_counter(), which increments _global_id_counter and returns
\* it; the object exists only when the validation of all fields succeeds
Construct(m, fields) ==
    [global_id_counter |-> m.global_id_counter + 1,
     created |-> IF ValidationRaises(fields) THEN m.created
                 ELSE Append(m.created, m.global_id_counter + 1)]

RECURSIVE ConstructTimes(_, _, _)
ConstructTimes(m, fields, n) ==
    IF n = 0 THEN m ELSE ConstructTimes(Construct(m, fields), fields, n - 1)

\* the loop `for card in selected_pattern` from position k on; skip[k] is
\* the outcome of `rng.random() > week_fullness`, pick[k] the surgeon that
\* rng.choice returns.  The result is <<raised, surgeries, n>> with n the
\* number of calls of Surgery(...).
RECURSIVE PlanCards(_, _, _, _, _, _, _, _, _)
PlanCards(pattern, k, skip, pick, active, key, week, acc, n) ==
    IF k > Len(pattern) THEN <<FALSE, acc, n>>
    ELSE IF skip[k] \/ Eligible(frequency_data, pattern[k], active) = <<>>
    THEN PlanCards(pattern, k + 1, skip, pick, active, key, week, acc, n)
    ELSE IF PickRaises(pattern, k, active) THEN <<TRUE, acc, n>>
    ELSE IF ValidationRaises(InitialPlanFields) THEN <<TRUE, acc, n + 1>>
    ELSE PlanCards(pattern, k + 1, skip, pick, active, key, week,
            Append(acc, <<pattern[k], pick[k], key[2],
                          week * DaysPerWeek + key[1]>>), n + 1)

\* entry of generate_initial_plan(pattern_data=patterns, schedule, ...):
\* card_to_surgeons is normalized, the loops start
EnterInitialPlan(r) ==
    IF NormalizeRaises(frequency_data)
    THEN [r EXCEPT !.pc = "ip_raised"]
    ELSE [r EXCEPT !.pc = "ip_loop", !.week = 0, !.pkidx = 1, !.surgeries = <<>>]

PlanBucketEnabled(r) ==
    /\ r.pc = "ip_loop"
    /\ r.week < plan_horizon_weeks
    /\ r.pkidx <= Len(PlanKeys(r))

\* sel, skip and pick are draws the generator can return in this iteration
PlanDrawsPossible(r, sel, skip, pick) ==
    LET key == PlanKeys(r)[r.pkidx]
        pats == r.patterns[key]
        active == ActiveSurgeons(r.schedule, key)
    IN  IF active = {} \/ pats = <<>>
        THEN sel = 1 /\ skip = [k \in DOMAIN skip |-> FALSE]
                     /\ pick = [k \in DOMAIN pick |-> 1]
        ELSE /\ sel <= Len(pats)
             /\ \A k \in DOMAIN skip :
                   IF k <= Len(pats[sel]) /\ ~skip[k]
                      /\ PickSupport(pats[sel], k, active) # {}
                   THEN pick[k] \in PickSupport(pats[sel], k, active)
                   ELSE pick[k] = 1
             /\ \A k \in DOMAIN skip : k > Len(pats[sel]) => ~skip[k]

\* `for (day, room), patterns in pattern_data.items()`, then the next week
PlanAdvance(r) ==
    IF r.pkidx < Len(PlanKeys(r))
    THEN [r EXCEPT !.pkidx = @ + 1]
    ELSE [r EXCEPT !.pkidx = 1, !.week = @ + 1]

\* one iteration of the loop over pattern_data.items() with the draws sel
\* (index of the selected pattern), skip and pick
PlanBucketStep(r, sel, skip, pick) ==
    LET key == PlanKeys(r)[r.pkidx]
        pats == r.patterns[key]
    IN  IF ActiveSurgeons(r.schedule, key) = {} \/ pats = <<>>
        THEN PlanAdvance(r)
        ELSE LET res == PlanCards(pats[sel], 1, skip, pick,
                                  ActiveSurgeons(r.schedule, key), key, r.week,
                                  r.surgeries, 0)
             IN  IF res[1]
                 THEN [r EXCEPT !.pc = "ip_raised", !.surgeries = res[2]]
                 ELSE PlanAdvance([r EXCEPT !.surgeries = res[2]])

\* the number of calls of Surgery(...) in that iteration
PlanConstructions(r, sel, skip, pick) ==
    LET key == PlanKeys(r)[r.pkidx]
        pats == r.patterns[key]
    IN  IF ActiveSurgeons(r.schedule, key) = {} \/ pats = <<>>
        THEN 0
        ELSE PlanCards(pats[sel], 1, skip, pick,
                       ActiveSurgeons(r.schedule, key), key, r.week,
                       r.surgeries, 0)[3]

\* `return surgeries`
ReturnPlanEnabled(r) ==
    /\ r.pc = "ip_loop"
    /\ (r.week >= plan_horizon_weeks \/ PlanKeys(r) = <<>>)

ReturnPlanStep(r) == [r EXCEPT !.pc = "ip_done"]

\* ------------------------------------------------------------------------
\* generate_all_data.py : one run of main's schedule, pattern and initial
\* plan calls
\* ------------------------------------------------------------------------
InitPlan ==
    /\ frequency_data \in FrequencyInputs
    /\ rooms \in Prefixes(NumRooms)
    /\ weekdays = [i \in 1..NumWeekdays |-> i]
    /\ sparsity_threshold \in ThresholdInputs
    /\ max_minutes_per_day = MainMinutes
    /\ num_patterns_per_room_day = NumPatterns
    /\ PatternParamsValid
    /\ run = EnterGenerateSchedule
    /\ rerun = None
    /\ refiltered = None
    /\ streams = None
    /\ models = FreshModels

CallPatterns ==
    /\ run.pc = "gs_done"
    /\ run' = EnterGeneratePatterns(run.schedule)
    /\ UNCHANGED <<inputVars, rerun, refiltered, streams, models>>

CallInitialPlan ==
    /\ run.pc = "gp_done"
    /\ run' = EnterInitialPlan(run)
    /\ UNCHANGED <<inputVars, rerun, refiltered, streams, models>>

PlanBucket ==
    /\ PlanBucketEnabled(run)
    /\ \E sel \in 1..NumPatterns,
          skip \in [1..max_minutes_per_day -> BOOLEAN],
          pick \in [1..max_minutes_per_day -> Surgeons] :
          /\ PlanDrawsPossible(run, sel, skip, pick)
          /\ run' = PlanBucketStep(run, sel, skip, pick)
          /\ models' = ConstructTimes(models, InitialPlanFields,
                                      PlanConstructions(run, sel, skip, pick))
    /\ UNCHANGED <<inputVars, rerun, refiltered, streams>>

ReturnPlan ==
    /\ ReturnPlanEnabled(run)
    /\ run' = ReturnPlanStep(run)
    /\ UNCHANGED <<inputVars, rerun, refiltered, streams, models>>

NextPlan ==
    \/ NoSlots \/ EnterLoop \/ ScheduleSurgeon \/ ReturnSchedule
    \/ CallPatterns
    \/ NextBucket \/ Draw \/ DrawRaises \/ WhileExit \/ ReturnPatterns
    \/ CallInitialPlan \/ PlanBucket \/ ReturnPlan

SpecPlan == InitPlan /\ [][NextPlan]_vars

\* ------------------------------------------------------------------------
\* models.py : the Surgery objects of one process.  Generation runs follow
\* each other in the process; each calls generate_waiting_list and then
\* generate_initial_plan, of which only the calls of Surgery(...) are
\* followed here.  A caller that catches the exception of a run starts the
\* next run in the same process.
\* ------------------------------------------------------------------------
InitIds ==
    /\ NoInputs
    /\ run = [Blank EXCEPT !.pc = "wl_loop"]
    /\ rerun = None
    /\ refiltered = None
    /\ streams = None
    /\ models = FreshModels

\* the ids of the objects that Surgery(**fields) adds to a list
Appended(m, fields) ==
    IF ValidationRaises(fields) THEN <<>> ELSE <<m.global_id_counter + 1>>

\* generate_waiting_list: one iteration of `for _ in range(n)`
WaitingListSurgery ==
    /\ run.pc = "wl_loop"
    /\ models.global_id_counter < MaxConstructions
    /\ models' = Construct(models, WaitingListFields)
    /\ run' = IF ValidationRaises(WaitingListFields)
              THEN [run EXCEPT !.pc = "wl_raised"]
              ELSE [run EXCEPT !.surgeries = @ \o Appended(models, WaitingListFields)]
    /\ UNCHANGED <<inputVars, rerun, refiltered, streams>>

\* `return waiting_list`, then the call of generate_initial_plan
WaitingListReturn ==
    /\ run.pc = "wl_loop"
    /\ run' = [run EXCEPT !.pc = "ip_cards", !.surgeries = <<>>]
    /\ UNCHANGED <<inputVars, rerun, refiltered, streams, models>>

\* generate_initial_plan: a card of a selected pattern gets a surgeon and
\* Surgery(...) is called
InitialPlanSurgery ==
    /\ run.pc = "ip_cards"
    /\ models.global_id_counter < MaxConstructions
    /\ models' = Construct(models, InitialPlanFields)
    /\ run' = IF ValidationRaises(InitialPlanFields)
              THEN [run EXCEPT !.pc = "ip_raised"]
              ELSE [run EXCEPT !.surgeries = @ \o Appended(models, InitialPlanFields)]
    /\ UNCHANGED <<inputVars, rerun, refiltered, streams>>

\* `return surgeries`
InitialPlanReturn ==
    /\ run.pc = "ip_cards"
    /\ run' = [run EXCEPT !.pc = "ip_done"]
    /\ UNCHANGED <<inputVars, rerun, refiltered, streams, models>>

\* the next generation run of the process
NextGeneration ==
    /\ run.pc \in {"wl_raised", "ip_raised", "ip_done"}
    /\ run' = [Blank EXCEPT !.pc = "wl_loop"]
    /\ UNCHANGED <<inputVars, rerun, refiltered, streams, models>>

NextIds ==
    \/ WaitingListSurgery \/ WaitingListReturn
    \/ InitialPlanSurgery \/ InitialPlanReturn
    \/ NextGeneration

SpecIds == InitIds /\ [][NextIds]_vars

\* ------------------------------------------------------------------------
\* generate_all_data.py : the generators of main.  rngs[k] is the k-th
\* child of SeedSequence(seed); main hands rngs[2] to generate_schedule and
\* rngs[3] to generate_patterns.  For a fixed seed the values a generator
\* returns are fixed: streams.tape holds the values of rngs[2] drawn so
\* far, streams.pos[k] the number of draws taken from rngs[k] in the run.
\* After a first run main is run again with the same seed and inputs but
\* other pattern parameters; the second run is followed up to the return
\* of generate_schedule, and streams.first is the schedule of the first.
\* ------------------------------------------------------------------------

\* rng=rngs[2] in the call of generate_schedule
ScheduleStream == 2

\* generate_patterns handed the generator of generate_schedule
PatternsStreamShared == ScheduleStream

\* rng=rngs[3] in the call of generate_patterns
PatternsStream == 3

FreshStreams ==
    [tape |-> <<>>, pos |-> [k \in {ScheduleStream, PatternsStream} |-> 0],
     pass |-> 1, first |-> <<>>]

\* the stream k has given one more value
Advance(st, k) == [st EXCEPT !.pos[k] = @ + 1]

\* the values rngs[2] can return at its position: the recorded one when the
\* seed has fixed it already, any value otherwise
ScheduleDraws(st) ==
    IF st.pos[ScheduleStream] < Len(st.tape)
    THEN {st.tape[st.pos[ScheduleStream] + 1]}
    ELSE DirichletSamples(NumSlots) \X (1..NumSlots)

Record(st, d) ==
    IF st.pos[ScheduleStream] < Len(st.tape) THEN st
    ELSE [st EXCEPT !.tape = Append(@, d)]

InitStreams ==
    /\ frequency_data \in FrequencyInputs
    /\ rooms \in Prefixes(NumRooms)
    /\ weekdays = [i \in 1..NumWeekdays |-> i]
    /\ sparsity_threshold \in ThresholdInputs
    /\ max_minutes_per_day = MainMinutes
    /\ num_patterns_per_room_day = NumPatterns
    /\ PatternParamsValid
    /\ run = EnterGenerateSchedule
    /\ rerun = None
    /\ refiltered = None
    /\ streams = FreshStreams
    /\ models = None

StreamScheduleSurgeon ==
    /\ ScheduleSurgeonEnabled(run)
    /\ \E d \in ScheduleDraws(streams) :
          /\ run' = ScheduleSurgeonStep(run, d[1], d[2])
          /\ streams' = Advance(Record(streams, d), ScheduleStream)
    /\ UNCHANGED <<inputVars, rerun, refiltered, models>>

StreamCallPatterns ==
    /\ run.pc = "gs_done"
    /\ streams.pass = 1
    /\ run' = EnterGeneratePatterns(run.schedule)
    /\ UNCHANGED <<inputVars, rerun, refiltered, streams, models>>

StreamDraw ==
    /\ \E card \in Cards, duration \in Durations :
          /\ DrawEnabled(run, card)
          /\ run' = DrawStep(run, card, duration)
    /\ streams' = Advance(streams, PatternsStream)
    /\ UNCHANGED <<inputVars, rerun, refiltered, models>>

\* main is called again with the same seed and inputs and other
\* pattern_params
RunAgain ==
    /\ streams.pass = 1
    /\ run.pc \in {"gp_done", "gp_raised"}
    /\ \E mm \in 1..MaxMinutes, np \in 1..NumPatterns :
          /\ <<mm, np>> # <<max_minutes_per_day, num_patterns_per_room_day>>
          /\ max_minutes_per_day' = mm
          /\ num_patterns_per_room_day' = np
    /\ run' = EnterGenerateSchedule
    /\ streams' = [streams EXCEPT !.pass = 2, !.first = run.schedule,
                                   !.pos = [k \in DOMAIN @ |-> 0]]
    /\ UNCHANGED <<frequency_data, rooms, weekdays, sparsity_threshold,
                   rerun, refiltered, models>>

NextStreams ==
    \/ NoSlots \/ EnterLoop \/ StreamScheduleSurgeon \/ ReturnSchedule
    \/ StreamCallPatterns
    \/ NextBucket \/ StreamDraw \/ DrawRaises \/ WhileExit \/ ReturnPatterns
    \/ RunAgain

SpecStreams == InitStreams /\ [][NextStreams]_vars

\* ------------------------------------------------------------------------
\* properties of remove_subpatterns (checked under SpecFilter)
\* ------------------------------------------------------------------------
Occurrences(p, c) == Cardinality({i \in DOMAIN p : p[i] = c})

SameMultiset(p, q) == \A c \in Cards : Occurrences(p, c) = Occurrences(q, c)

\* p is a proper multiset-subset of q
ProperSubMultiset(p, q) ==
    /\ \A c \in Cards : Occurrences(p, c) <= Occurrences(q, c)
    /\ ~SameMultiset(p, q)

Filtered == run.pc \in {"filtered", "refiltered"}

ExampleResult ==
    [k \in FilterKeys |->
        IF k = <<1, 1>> THEN << <<1, 2, 3>>, <<1, 1, 2>> >> ELSE <<>>]

\* C1: after remove_subpatterns no retained pattern is a proper
\* multiset-subset of another retained pattern of the whole corpus, and of
\* the corpus [(A,B), (A,B,C), (A,A,B)] exactly (A,B) is removed.
C1_NoRetainedProperSubset ==
    Filtered =>
        /\ \A p, q \in AllPatterns(run.patterns) : ~ProperSubMultiset(p, q)
        /\ run.pattern_data = ExampleCorpus => run.patterns = ExampleResult

C1_Witness ==
    /\ run.pc = "filtered"
    /\ run.pattern_data = ExampleCorpus
    /\ run.patterns = ExampleResult

\* C2: patterns with equal card multisets are retained or removed together,
\* and a corpus without any proper multiset-superset pair is returned whole.
C2_EqualMultisetsKeptTogether ==
    Filtered =>
        /\ \A p, q \in AllPatterns(run.pattern_data) :
              SameMultiset(p, q) =>
                (p \in AllPatterns(run.patterns) <=> q \in AllPatterns(run.patterns))
        /\ (\A p, q \in AllPatterns(run.pattern_data) : ~ProperSubMultiset(p, q))
              => run.patterns = run.pattern_data

C2_Witness ==
    /\ run.pc = "filtered"
    /\ \E p, q \in AllPatterns(run.patterns) : p # q /\ SameMultiset(p, q)
    /\ run.patterns # run.pattern_data

\* C3: remove_subpatterns applied to its own output returns that output.
C3_Idempotent == run.pc = "refiltered" => refiltered = run.patterns

C3_Witness ==
    /\ run.pc = "refiltered"
    /\ run.patterns # run.pattern_data
    /\ \E k \in DOMAIN run.patterns : Len(run.patterns[k]) >= 2
    /\ refiltered = run.patterns

\* C22: remove_subpatterns only removes: every returned list is its input
\* list without the patterns that did not survive, in the original order and
\* with every occurrence of a surviving pattern; nothing is added, altered
\* or moved to another bucket.
C22_OnlyRemoves ==
    Filtered =>
        \A key \in DOMAIN run.patterns :
            run.patterns[key] =
                SelectSeq(run.pattern_data[key],
                          LAMBDA p : p \in AllPatterns(run.patterns))

\* of a bucket of three patterns the middle one was removed and the two
\* occurrences of the surviving pattern were kept
C22_Witness ==
    /\ run.pc = "filtered"
    /\ \E key \in DOMAIN run.patterns :
          /\ Len(run.pattern_data[key]) = 3
          /\ run.pattern_data[key][1] = run.pattern_data[key][3]
          /\ run.patterns[key] = <<run.pattern_data[key][1], run.pattern_data[key][3]>>

\* the patterns of the corpus that remove_subpatterns did not return
Removed == AllPatterns(run.pattern_data) \ AllPatterns(run.patterns)

\* C23: every pattern that remove_subpatterns removes is a proper
\* multiset-subset of a pattern that it retains.
C23_RemovedHasSurvivingWitness ==
    Filtered =>
        \A p \in Removed :
            \E q \in AllPatterns(run.patterns) : ProperSubMultiset(p, q)

\* a removed pattern is contained in another removed pattern, which is in
\* turn contained in a retained one
C23_Witness ==
    /\ run.pc = "filtered"
    /\ \E p, q \in Removed :
          /\ ProperSubMultiset(p, q)
          /\ \E t \in AllPatterns(run.patterns) : ProperSubMultiset(q, t)

\* the unpruned reference: the unique patterns that no other unique pattern
\* of the corpus properly contains, every pair compared
ReferenceSurvivors(pd) ==
    {p \in AllPatterns(pd) :
        ~\E q \in AllPatterns(pd) :
            q # p /\ IsProperMultisetSubset(Counter(p), Counter(q))}

\* C24: the scan that compares each unique pattern only with the candidates
\* at least as long, stopping at the first match, retains exactly the
\* patterns the unpruned comparison of all pairs retains; a candidate as
\* long as p never subsumes p.
C24_PrunedScanEqualsReference ==
    Filtered =>
        /\ AllPatterns(run.patterns) = ReferenceSurvivors(run.pattern_data)
        /\ \A p, q \in AllPatterns(run.pattern_data) :
              Len(p) = Len(q) => ~IsProperMultisetSubset(Counter(p), Counter(q))

\* the corpus has two patterns of one length with different cards, a shorter
\* pattern that was removed and a pattern that was retained
C24_Witness ==
    /\ run.pc = "filtered"
    /\ \E p, q \in AllPatterns(run.pattern_data) :
          Len(p) = Len(q) /\ ~SameMultiset(p, q)
    /\ Removed # {}
    /\ AllPatterns(run.patterns) = ReferenceSurvivors(run.pattern_data)

\* C26: remove_subpatterns returns a mapping with exactly the keys of its
\* input and leaves the input as it was; a bucket whose patterns are all
\* contained in patterns of other buckets is returned with an empty list.
C26_SameKeysInputUntouched ==
    /\ [](Filtered =>
            /\ DOMAIN run.patterns = DOMAIN run.pattern_data
            /\ \A key \in DOMAIN run.pattern_data :
                  Range(run.pattern_data[key]) \subseteq Removed
                      => run.patterns[key] = <<>>)
    /\ [][run.pc # "corpus" => run'.pattern_data = run.pattern_data]_vars

\* a bucket with patterns was returned empty: each of its patterns is
\* contained in a retained pattern of another bucket
C26_Witness ==
    /\ run.pc = "filtered"
    /\ \E key \in DOMAIN run.pattern_data :
          /\ Len(run.pattern_data[key]) >= 2
          /\ run.patterns[key] = <<>>
          /\ \A i \in DOMAIN run.pattern_data[key] :
                \E other \in DOMAIN run.patterns \ {key} :
                    \E j \in DOMAIN run.patterns[other] :
                        ProperSubMultiset(run.pattern_data[key][i], run.patterns[other][j])

\* C27: the result of remove_subpatterns does not depend on the iteration
\* order of the set of unique patterns: every order gives the surviving set
\* and the mapping that were returned.
C27_IterationOrderIrrelevant ==
    Filtered =>
        \A iter \in Perms(AllPatterns(run.pattern_data)) :
            /\ NonSubpatterns(run.pattern_data, iter) = AllPatterns(run.patterns)
            /\ RemoveSubpatterns(run.pattern_data, iter) = run.patterns

\* the corpus has three unique patterns, two of them of one length; one was
\* removed and a bucket was returned with two different patterns
C27_Witness ==
    /\ run.pc = "filtered"
    /\ Cardinality(AllPatterns(run.pattern_data)) = 3
    /\ \E p, q \in AllPatterns(run.pattern_data) : p # q /\ Len(p) = Len(q)
    /\ Cardinality(Removed) = 1
    /\ \E key \in DOMAIN run.patterns :
          /\ Len(run.patterns[key]) = 2
          /\ run.patterns[key][1] # run.patterns[key][2]

\* ------------------------------------------------------------------------
\* properties of generate_patterns (checked under SpecPatterns)
\* ------------------------------------------------------------------------
InGeneratePatterns == run.pc \in {"gp_bucket", "gp_walk", "gp_raised", "gp_done"}

NoEmptyPattern(pd) == \A k \in DOMAIN pd : \A i \in DOMAIN pd[k] : pd[k][i] # <<>>

\* C4: at every point of every walk, the accumulated duration of the cards
\* appended so far is at most max_minutes_per_day.
C4_DurationWithinCapacity == run.total_duration <= max_minutes_per_day

C4_Witness ==
    /\ run.pc = "gp_walk"
    /\ Len(run.sequence) >= 2
    /\ run.total_duration = max_minutes_per_day

\* C5: no empty pattern is ever put into pattern_data or returned; a walk
\* whose first draw overflows adds nothing.
C5_NoEmptyPattern ==
    /\ InGeneratePatterns => NoEmptyPattern(run.pattern_data)
    /\ run.pc = "gp_done" => NoEmptyPattern(run.patterns)

\* the call has returned, and of the walks of some (day, room) one has
\* added a pattern and another, whose first draw overflowed, has added none
C5_Witness ==
    /\ run.pc = "gp_done"
    /\ \E k \in DOMAIN run.pattern_data :
          /\ Len(run.pattern_data[k]) >= 1
          /\ Len(run.pattern_data[k]) < num_patterns_per_room_day

\* C6: every (weekday, room) list has at most num_patterns_per_room_day
\* patterns, before and after the subpattern filter.
C6_AtMostNumPatterns ==
    /\ InGeneratePatterns =>
          \A k \in DOMAIN run.pattern_data :
              Len(run.pattern_data[k]) <= num_patterns_per_room_day
    /\ run.pc = "gp_done" =>
          \A k \in DOMAIN run.patterns : Len(run.patterns[k]) <= num_patterns_per_room_day

C6_Witness ==
    /\ run.pc = "gp_done"
    /\ \E k \in DOMAIN run.patterns : Len(run.patterns[k]) = num_patterns_per_room_day
    /\ \E k \in DOMAIN run.patterns : Len(run.patterns[k]) < Len(run.pattern_data[k])

\* the schedule entries at (day, room) key
EntriesAt(key) ==
    {i \in DOMAIN run.schedule :
        run.schedule[i][1][3] = key[1] /\ run.schedule[i][1][2] = key[2]}

\* C7: a (weekday, room) gets patterns only when some surgeon holds a
\* positive schedule weight there.
C7_PatternsOnlyForPositiveWeight ==
    InGeneratePatterns =>
        \A k \in DOMAIN run.pattern_data :
            \E i \in EntriesAt(k) : RGt(run.schedule[i][2], RZero)

\* no surgeon with an entry at (day, room) key has a positive frequency
EmptyDistributionAt(key) ==
    \A i \in EntriesAt(key) :
        \A j \in DOMAIN frequency_data :
            frequency_data[j][1][2] = run.schedule[i][1][1] => frequency_data[j][2] = 0

\* C8: a (weekday, room) whose surgeons contribute no card weight is
\* skipped: generate_patterns does not raise there.
C8_EmptyDistributionSkipped ==
    run.pc = "gp_raised" => ~EmptyDistributionAt(run.room_day[run.bidx][1])

\* some surgeon with a schedule entry at (day, room) key has a positive
\* frequency for the card
PerformedAt(card, key) ==
    \E i \in EntriesAt(key) :
        \E j \in DOMAIN frequency_data :
            /\ frequency_data[j][1] = <<card, run.schedule[i][1][1]>>
            /\ frequency_data[j][2] > 0

\* C28: every card of a pattern of (weekday, room) has a positive frequency
\* for a surgeon with a schedule entry at that (room, weekday); a card that
\* no such surgeon performs is never drawn there.
C28_CardsComeFromScheduledSurgeons ==
    /\ run.pc = "gp_walk" =>
          \A i \in DOMAIN run.sequence :
              PerformedAt(run.sequence[i], run.room_day[run.bidx][1])
    /\ InGeneratePatterns =>
          \A key \in DOMAIN run.pattern_data :
              \A i \in DOMAIN run.pattern_data[key] :
                  \A c \in Range(run.pattern_data[key][i]) : PerformedAt(c, key)
    /\ run.pc = "gp_done" =>
          \A key \in DOMAIN run.patterns :
              \A i \in DOMAIN run.patterns[key] :
                  \A c \in Range(run.patterns[key][i]) : PerformedAt(c, key)

\* patterns were returned for a (day, room) although frequency_data has a
\* card with a positive frequency that nobody scheduled there performs
C28_Witness ==
    /\ run.pc = "gp_done"
    /\ \E key \in DOMAIN run.patterns :
          /\ run.patterns[key] # <<>>
          /\ \E j \in DOMAIN frequency_data :
                /\ frequency_data[j][2] > 0
                /\ ~PerformedAt(frequency_data[j][1][1], key)
                /\ \A i \in DOMAIN run.patterns[key] :
                      frequency_data[j][1][1] \notin Range(run.patterns[key][i])

\* ------------------------------------------------------------------------
\* properties of main's schedule and pattern calls (checked under SpecMain)
\* ------------------------------------------------------------------------
BothReturned == run.pc = "gp_done" /\ rerun.pc = "gp_done"

ScheduleTotal == RSum(DVals(run.schedule))

\* |x - k| <= 1e-9 for a rational x and an integer k
Within1e9(x, k) == Abs(x[1] - k * x[2]) * 1000000000 <= x[2]

EntriesOf(surgeon) == {i \in DOMAIN run.schedule : run.schedule[i][1][1] = surgeon}

\* the sum of the weights of a surgeon
SurgeonTotal(surgeon) ==
    LET idx == EntriesOf(surgeon)
        RECURSIVE Sum(_)
        Sum(S) == IF S = {} THEN RZero
                  ELSE LET i == CHOOSE x \in S : TRUE
                       IN  RAdd(run.schedule[i][2], Sum(S \ {i}))
    IN  Sum(idx)

InGenerateSchedule == run.pc \in {"gs_slots", "gs_loop", "gs_raised", "gs_done"}

\* C11: the weights of every surgeon present in the schedule sum to 1.0,
\* also after the sparsity threshold has zeroed weights and the rest was
\* renormalized.
C11_SurgeonWeightsSumToOne ==
    InGenerateSchedule =>
        \A surgeon \in Surgeons :
            EntriesOf(surgeon) # {} => Within1e9(SurgeonTotal(surgeon), 1)

\* the last surgeon's sample had a positive weight below the threshold and
\* a weight at or above it: the first was zeroed, the second renormalized
C11_Witness ==
    /\ run.pc = "gs_loop"
    /\ run.sampled # <<>>
    /\ \E i, j \in DOMAIN run.sampled :
          /\ RGt(run.sampled[i], RZero)
          /\ RLt(run.sampled[i], sparsity_threshold)
          /\ ~RLt(run.sampled[j], sparsity_threshold)
    /\ \E i \in DOMAIN run.schedule :
          /\ run.schedule[i][1][1] = SurgeonList(frequency_data)[run.sidx - 1]
          /\ run.schedule[i][2] = ROne

\* C12: every stored entry of the schedule has a weight greater than 0 and
\* at most 1; a weight of 0 is never stored.
C12_StoredWeightsPositive ==
    InGenerateSchedule =>
        \A i \in DOMAIN run.schedule :
            /\ RGt(run.schedule[i][2], RZero)
            /\ ~RGt(run.schedule[i][2], ROne)

\* a schedule was returned in which a surgeon has a weight strictly between
\* 0 and 1 and another surgeon has no entry for some (room, day)
C12_Witness ==
    /\ run.pc = "gs_done"
    /\ \E i \in DOMAIN run.schedule : RLt(run.schedule[i][2], ROne)
    /\ \E surgeon \in Surgeons :
          /\ EntriesOf(surgeon) # {}
          /\ Cardinality(EntriesOf(surgeon)) < NumSlots

\* C13: with an empty rooms list or an empty weekdays list generate_schedule
\* raises ValueError and returns no schedule, whatever frequency_data holds.
C13_NoSlotsIsAnError ==
    (InGenerateSchedule /\ (rooms = <<>> \/ weekdays = <<>>)) =>
        /\ run.pc \in {"gs_slots", "gs_raised"}
        /\ run.pc = "gs_slots" => (NoSlotsEnabled(run) /\ ~EnterLoopEnabled(run))
        /\ run.schedule = <<>>

C13_Witness ==
    /\ run.pc = "gs_raised"
    /\ rooms # <<>>
    /\ weekdays = <<>>
    /\ frequency_data # <<>>

\* ------------------------------------------------------------------------
\* properties of main's chain of calls (checked under SpecPlan)
\* ------------------------------------------------------------------------
AfterSchedule ==
    run.pc \in {"gs_done", "gp_bucket", "gp_walk", "gp_raised", "gp_done",
                "ip_loop", "ip_raised", "ip_done"}

AfterPatterns == run.pc \in {"gp_done", "ip_loop", "ip_raised", "ip_done"}

\* C14: with an empty frequency mapping and non-empty rooms and weekdays no
\* call raises, generate_schedule returns the empty schedule,
\* generate_patterns returns no pattern and generate_initial_plan returns no
\* surgery.
C14_EmptyFrequencyTolerated ==
    (frequency_data = <<>> /\ rooms # <<>> /\ weekdays # <<>>) =>
        /\ run.pc \notin {"gs_raised", "gp_raised", "ip_raised"}
        /\ AfterSchedule => run.schedule = <<>>
        /\ AfterPatterns => AllPatterns(run.patterns) = {}
        /\ run.pc = "ip_done" => run.surgeries = <<>>

C14_Witness ==
    /\ run.pc = "ip_done"
    /\ frequency_data = <<>>
    /\ rooms # <<>>
    /\ weekdays # <<>>
    /\ run.surgeries = <<>>

\* ------------------------------------------------------------------------
\* generate_schedule and negative frequencies (checked under SpecSchedule)
\* ------------------------------------------------------------------------
HasNegativeFrequency == \E i \in DOMAIN frequency_data : frequency_data[i][2] < 0

\* C15: a frequency mapping with a negative value is rejected:
\* generate_schedule never returns a schedule computed from it.
C15_NegativeFrequencyRejected ==
    (InGenerateSchedule /\ HasNegativeFrequency) => run.pc # "gs_done"

\* ------------------------------------------------------------------------
\* termination of the walks of generate_patterns (checked under SpecWalk)
\* ------------------------------------------------------------------------

\* C19: every walk reaches a stop condition after finitely many draws: a
\* draw that does not stop the walk moves total_duration closer to
\* max_minutes_per_day, which it cannot do forever.
C19_EveryDrawAdvancesTheWalk ==
    [][(/\ run.pc = "gp_walk" /\ run'.pc = "gp_walk"
        /\ Len(run'.sequence) > Len(run.sequence))
       => run'.total_duration > run.total_duration]_vars

\* ------------------------------------------------------------------------
\* properties of the generators of main (checked under SpecStreams)
\* ------------------------------------------------------------------------

\* C20: with the seed and the other inputs fixed, other pattern parameters
\* leave the returned schedule unchanged; generate_schedule takes its draws
\* from rngs[2] only and generate_patterns from rngs[3] only.
C20_PhasesUseTheirOwnStream ==
    /\ (streams.pass = 2 /\ run.pc = "gs_done") => run.schedule = streams.first
    /\ run.pc \in {"gs_slots", "gs_raised"} =>
          streams.pos = [k \in DOMAIN streams.pos |-> 0]
    /\ (run.pc \in {"gs_loop", "gs_done"} \/ InGeneratePatterns) =>
          streams.pos[ScheduleStream] = Len(SurgeonList(frequency_data))
                                        - Cardinality({i \in DOMAIN SurgeonList(frequency_data) :
                                                        run.pc = "gs_loop" /\ i >= run.sidx})
    /\ InGenerateSchedule => streams.pos[PatternsStream] = 0

\* the second run, with other pattern parameters, has returned the schedule
\* of the first run, which drew patterns from rngs[3]
C20_Witness ==
    /\ streams.pass = 2
    /\ run.pc = "gs_done"
    /\ Len(streams.tape) = 2
    /\ Len(streams.first) >= 2
    /\ run.schedule = streams.first

\* ------------------------------------------------------------------------
\* the walks of generate_patterns and their draws (checked under
\* SpecRecorded)
\* ------------------------------------------------------------------------

\* the number of leading draws whose durations add up to at most
\* max_minutes_per_day: the draws before the first overflowing one
RECURSIVE AcceptedFrom(_, _, _)
AcceptedFrom(draws, i, total) ==
    IF i > Len(draws) THEN Len(draws)
    ELSE IF total + draws[i][2] > max_minutes_per_day THEN i - 1
    ELSE AcceptedFrom(draws, i + 1, total + draws[i][2])

\* the cards of the draws before the first overflowing draw
AcceptedCards(draws) == [i \in 1..AcceptedFrom(draws, 1, 0) |-> draws[i][1]]

\* the non-empty accepted prefixes of the ended walks of (day, room) key,
\* in the order of the walks
RECURSIVE ExpectedPatterns(_, _, _)
ExpectedPatterns(closed, key, i) ==
    IF i > Len(closed) THEN <<>>
    ELSE (IF closed[i][1] = key /\ AcceptedCards(closed[i][2]) # <<>>
          THEN <<AcceptedCards(closed[i][2])>> ELSE <<>>)
         \o ExpectedPatterns(closed, key, i + 1)

PatternsAt(pd, key) == IF key \in DOMAIN pd THEN pd[key] ELSE <<>>

\* C21: the first draw whose duration would take the walk over
\* max_minutes_per_day ends the walk and is not included, and nothing is
\* drawn after it: every pattern is the sequence of the cards drawn before
\* the first overflowing draw of its walk.
C21_RejectAndStop ==
    InGeneratePatterns =>
        /\ run.pc = "gp_walk" =>
              /\ AcceptedFrom(streams.walk, 1, 0) = Len(streams.walk)
              /\ run.sequence = AcceptedCards(streams.walk)
        /\ \A i \in DOMAIN streams.closed :
              AcceptedFrom(streams.closed[i][2], 1, 0) >= Len(streams.closed[i][2]) - 1
        /\ \A key \in DKeySet(run.room_day) :
              PatternsAt(run.pattern_data, key)
                  = ExpectedPatterns(streams.closed, key, 1)

\* a walk has ended at an overflowing draw that came after an included card,
\* and an earlier walk was stopped by its first draw
C21_Witness ==
    /\ run.pc = "gp_done"
    /\ \E i, j \in DOMAIN streams.closed :
          /\ i < j
          /\ AcceptedFrom(streams.closed[i][2], 1, 0) = 0
          /\ Len(streams.closed[j][2]) = 2
          /\ AcceptedFrom(streams.closed[j][2], 1, 0) = 1
          /\ run.pattern_data[streams.closed[j][1]] = <<AcceptedCards(streams.closed[j][2])>>

\* ------------------------------------------------------------------------
\* the fallback of the sparsity block (checked under SpecSchedule)
\* ------------------------------------------------------------------------

\* the last iteration sampled weights that are all below a positive
\* threshold
AllBelowThreshold ==
    /\ run.pc = "gs_loop"
    /\ run.sampled # <<>>
    /\ RGt(sparsity_threshold, RZero)
    /\ \A i \in DOMAIN run.sampled : RLt(run.sampled[i], sparsity_threshold)

\* C25: when the threshold is positive and all sampled weights of a surgeon
\* are below it, the surgeon gets exactly one entry, of weight 1.0, at the
\* (room, weekday) whose sampled weight was the largest.
C25_FallbackKeepsLargestSample ==
    AllBelowThreshold =>
        LET surgeon == SurgeonList(frequency_data)[run.sidx - 1]
            pairs == RoomDayPairs(rooms, weekdays, 1)
        IN  \E i \in DOMAIN run.sampled :
                /\ \A j \in DOMAIN run.sampled : ~RGt(run.sampled[j], run.sampled[i])
                /\ \A e \in EntriesOf(surgeon) :
                      /\ run.schedule[e][1] = <<surgeon, pairs[i][1], pairs[i][2]>>
                      /\ run.schedule[e][2] = ROne
                /\ Cardinality(EntriesOf(surgeon)) = 1

\* ------------------------------------------------------------------------
\* the surgeons of the returned schedule (checked under SpecSchedule)
\* ------------------------------------------------------------------------

\* the surgeons that appear in a key of frequency_data
FrequencySurgeons == {frequency_data[j][1][2] : j \in DOMAIN frequency_data}

\* the surgeons with at least one entry in the schedule
ScheduledSurgeons == {run.schedule[i][1][1] : i \in DOMAIN run.schedule}

\* C29: for non-empty rooms and weekdays the surgeons with an entry in the
\* returned schedule are exactly the surgeons of the keys of frequency_data:
\* an absent surgeon gets no entry and every present surgeon gets at least
\* one.
C29_ScheduledSurgeonsAreFrequencySurgeons ==
    /\ (run.pc = "gs_done" /\ rooms # <<>> /\ weekdays # <<>>) =>
          ScheduledSurgeons = FrequencySurgeons
    /\ InGenerateSchedule => ScheduledSurgeons \subseteq FrequencySurgeons

\* a schedule was returned under a positive threshold in which the one
\* surgeon of frequency_data has a single entry out of two slots and the
\* other surgeon has none
C29_Witness ==
    /\ run.pc = "gs_done"
    /\ RGt(sparsity_threshold, RZero)
    /\ NumSlots = 2
    /\ Cardinality(FrequencySurgeons) = 1
    /\ Surgeons \ FrequencySurgeons # {}
    /\ ScheduledSurgeons = FrequencySurgeons
    /\ Len(run.schedule) = 1

\* ------------------------------------------------------------------------
\* the ids of the Surgery objects of a process (checked under SpecIds)
\* ------------------------------------------------------------------------

\* C30: the ids given by the global counter are unique and strictly
\* increasing in creation order, and the k-th surgery created in the
\* process, over all its generation runs, has id k.
C30_KthSurgeryHasIdK ==
    /\ \A j, k \in DOMAIN models.created :
          j < k => models.created[j] < models.created[k]
    /\ \A k \in DOMAIN models.created : models.created[k] = k

====
